---------------------------- MODULE Spec2Model ----------------------------
(***************************************************************************)
(* Model of the shellmate command-generation service                       *)
(* (src/aws/lambda_function.py): request validation, the Bedrock retry     *)
(* loop with its two backoff curves, the clean-up of the generated text    *)
(* and the response envelope; and of the command-line client               *)
(* (src/shellmate/src/shellmate.py): one request to the service, then the  *)
(* seamless or the interactive delivery of the command.                    *)
(*                                                                         *)
(* Spec is the service, CliSpec one run of the client.                     *)
(*                                                                         *)
(* Texts are sequences of characters, each named by a string.  Durations  *)
(* are integer milliseconds (1 time-unit of the code = 1000).              *)
(***************************************************************************)
EXTENDS Integers, Sequences, FiniteSets, TLC

(* ------------------------------ bounds -------------------------------- *)

\* longest unfenced backend text enumerated
MaxRawLen == 3
\* longest text enumerated inside a fenced backend text
MaxInnerLen == 1
\* longest command text the service returns to the client
MaxCmdLen == 2

(* --------------------------- program constants ------------------------ *)

max_retries == 5
base_delay == 2
\* one time-unit (second) in milliseconds
Unit == 1000
\* exclusive upper end of the jitter, time.time() % 0.5, in milliseconds
JitterSpan == 500

(* ------------------------------- texts -------------------------------- *)

\* the backquote character (U+0060); a TLA+ string literal cannot hold it
BT == "bt"
NL == "\n"
SP == " "

\* characters removed by str.strip()
Whitespace == {SP, NL, "\t"}

\* all sequences over S of length 0..n
SeqsUpTo(S, n) == UNION {[1..k -> S] : k \in 0..n}

\* Python str.strip(): drop leading and trailing whitespace
RECURSIVE lstrip(_)
lstrip(s) == IF s # <<>> /\ Head(s) \in Whitespace THEN lstrip(Tail(s)) ELSE s

RECURSIVE rstrip(_)
rstrip(s) ==
    IF s # <<>> /\ s[Len(s)] \in Whitespace
    THEN rstrip(SubSeq(s, 1, Len(s) - 1))
    ELSE s

strip(s) == rstrip(lstrip(s))

\* s starts with the non-empty text old
StartsWith(s, old) ==
    /\ Len(s) >= Len(old)
    /\ SubSeq(s, 1, Len(old)) = old

\* Python str.replace(old, empty): remove the non-overlapping occurrences of
\* old, scanning from the left
RECURSIVE remove(_, _)
remove(s, old) ==
    IF s = <<>> THEN <<>>
    ELSE IF StartsWith(s, old) THEN remove(SubSeq(s, Len(old) + 1, Len(s)), old)
    ELSE <<Head(s)>> \o remove(Tail(s), old)

Fence == <<BT, BT, BT>>
FenceBash == Fence \o <<"b", "a", "s", "h">>

\* a clean-up that forgets the final strip()
sanitize_no_final_strip(raw) == remove(remove(strip(raw), FenceBash), Fence)

\* the clean-up of the generated text: text.strip(), then
\* .replace(FenceBash, empty).replace(Fence, empty).strip()
sanitize(raw) == strip(remove(remove(strip(raw), FenceBash), Fence))

(* ----------------------------- input sets ----------------------------- *)

\* query texts: blank, whitespace-only, plain, and with leading or trailing
\* whitespace
QueryTexts ==
    {<<>>, <<SP>>, <<SP, NL>>, <<"l">>, <<"l", "s">>, <<SP, "l">>,
     <<"l", SP, NL>>}

\* the 'query' member of the request body
QueryFields ==
    {[kind |-> "absent", text |-> <<>>], [kind |-> "nonstr", text |-> <<>>]}
        \cup {[kind |-> "str", text |-> t] : t \in QueryTexts}

\* the 'context' member of the request body
ContextFields == {"absent", "object", "nonobject"}

\* requests: a body that is a JSON object, or one that is not; a preflight
\* (OPTIONS) request carries a null body or no body member at all, in which
\* case the event itself is taken as the body
Events ==
    {[method |-> "POST", body |-> "object", query |-> q, context |-> c] :
        q \in QueryFields, c \in ContextFields}
    \cup {[method |-> "POST", body |-> b,
           query |-> [kind |-> "absent", text |-> <<>>],
           context |-> "absent"] : b \in {"notjson", "notobject"}}
    \cup {[method |-> "OPTIONS", body |-> b,
           query |-> [kind |-> "absent", text |-> <<>>],
           context |-> "absent"] : b \in {"null", "object"}}

\* language tags a model may put after the opening fence
Tags == {<<>>, <<"b", "a", "s", "h">>, <<"s", "h">>}

\* texts put inside a fence
Inners == SeqsUpTo({SP, "l"}, MaxInnerLen)

\* a fenced block: opening fence with tag, the inner text on its own line,
\* closing fence
Fenced(tag, inner) == Fence \o tag \o <<NL>> \o inner \o <<NL>> \o Fence

\* n backquotes
RECURSIVE Backquotes(_)
Backquotes(n) == IF n = 0 THEN <<>> ELSE <<BT>> \o Backquotes(n - 1)

\* texts in which removing the tagged fence marker joins the backquotes
\* around it
JoinedTexts ==
    {Backquotes(a) \o FenceBash \o Backquotes(b) : a \in 0..2, b \in 0..2}

\* texts the backend may generate
RawTexts ==
    SeqsUpTo({BT, "l"}, MaxRawLen)
        \cup {<<SP>>, <<SP, "l", NL>>, <<"l", SP, "l">>}
        \cup {Fenced(tag, inner) : tag \in Tags, inner \in Inners}
        \cup JoinedTexts

ThrottlingCodes ==
    {"ThrottlingException", "TooManyRequestsException",
     "ServiceQuotaExceededException"}

\* error codes a ClientError of the backend may carry
ErrorCodes ==
    ThrottlingCodes
        \cup {"ValidationException", "InternalServerException",
              "ModelTimeoutException"}

\* an exception of the backend call that is not a ClientError
NonClientError == "ReadTimeoutError"

\* the message text a backend error carries
ErrorMessage == "backend detail"

\* the ends of the jitter interval [0, JitterSpan)
Jitters == {0, JitterSpan - 1}

(* ------------------------------- state -------------------------------- *)

VARIABLES
    cpc,        \* client: "start" | "requesting" | "staged" | "exited"
    args,       \* client: [query, seamless] as parsed from the command line
    env,        \* client: [endpoint, show_prompt] as set in the environment
    requests,   \* client: number of urlopen calls of this run
    request,    \* client: the query sent to the service
    reply,      \* client: [kind, command]: how the request ended
    stdout,     \* client: the lines printed to standard output
    stderr,     \* client: the lines printed to the error stream
    staged,     \* client: the text put into the input line by the hook
    operator,   \* client: "none" | "enter" | "interrupt" | "eof" | "error"
    line,       \* client: the line the operator submitted
    executed,   \* client: the lines handed to os.system
    status,     \* client: what os.system returned, -1 when it was not called
    result,     \* client: "none" | "true" | "false": what run returned
    exitCode    \* client: the exit code of the process, -1 while it runs

cliVars == <<cpc, args, env, requests, request, reply, stdout, stderr, staged,
             operator, line, executed, status, result, exitCode>>

VARIABLES
    pc,         \* "idle" | "attempting" (inside the retry loop) | "done"
    event,      \* the request being handled
    attempt,    \* loop variable of the retry loop
    attempts,   \* number of bedrock.invoke_model calls of this request
    delays,     \* <<[kind, delay]>>: the sleeps of this request, without jitter
    jitter,     \* the jitter added to the most recent throttling sleep
    invoker,    \* "NotCalled" | "Attempting" | "Succeeded" | "Failed"
    lastErr,    \* [code, msg] of the most recent backend failure
    outcome,    \* "none" | "text" | "malformed" | "error": last backend reply
    rawText,    \* the text of the backend reply when outcome = "text"
    command,    \* what generate_shell_command returned
    response    \* what lambda_handler returned

svcVars == <<pc, event, attempt, attempts, delays, jitter, invoker, lastErr,
             outcome, rawText, command, response>>

vars == <<svcVars, cliVars>>

\* Python None / a str value, as returned by generate_shell_command
None == [none |-> TRUE, text |-> <<>>]
Str(t) == [none |-> FALSE, text |-> t]

\* Python truthiness test (not command)
Falsy(c) == c.none \/ c.text = <<>>

NoErr == [code |-> "none", msg |-> ""]
NoEvent == [method |-> "POST", body |-> "object", query |-> [kind |-> "absent", text |-> <<>>],
            context |-> "absent"]

(* ----------------------------- responses ------------------------------ *)

\* the headers every response of lambda_handler carries
JsonHeaders == [ContentType |-> "application/json", AllowOrigin |-> "*"]

QueryRequiredText == "Query parameter is required"
FailedText == "Failed to generate shell command"
InternalText == "Internal server error"

ErrorBody(text) == [error |-> text, command |-> <<>>, query |-> <<>>]

NoResponse == [statusCode |-> 0, headers |-> JsonHeaders, body |-> ErrorBody("")]

Response400 ==
    [statusCode |-> 400, headers |-> JsonHeaders,
     body |-> ErrorBody(QueryRequiredText)]

\* a handler that reports the backend's message to the caller
failure_text_leaking(err) == IF err.msg = "" THEN FailedText ELSE err.msg

\* the text put in the body when generate_shell_command returned nothing
failure_text(err) == FailedText

Response500Failed(err) ==
    [statusCode |-> 500, headers |-> JsonHeaders,
     body |-> ErrorBody(failure_text(err))]

\* an error response built without the cross-origin header
Response500Internal_no_cors ==
    [statusCode |-> 500, headers |-> [ContentType |-> "application/json"],
     body |-> ErrorBody(InternalText)]

Response500Internal ==
    [statusCode |-> 500, headers |-> JsonHeaders,
     body |-> ErrorBody(InternalText)]

\* a success response that gives back the query in place of the command
Response200_swapped(cmd, query) ==
    [statusCode |-> 200, headers |-> JsonHeaders,
     body |-> [error |-> "", command |-> query, query |-> cmd]]

Response200(cmd, query) ==
    [statusCode |-> 200, headers |-> JsonHeaders,
     body |-> [error |-> "", command |-> cmd, query |-> query]]

\* the body '' of the preflight response: no JSON document, no member set
EmptyBody == ErrorBody("")

\* the response of handle_cors_preflight(), which nothing calls
handle_cors_preflight ==
    [statusCode |-> 200,
     headers |-> [AllowOrigin |-> "*",
                  AllowMethods |-> "POST, GET, OPTIONS",
                  AllowHeaders |-> "Content-Type, Authorization"],
     body |-> EmptyBody]

(* ------------------------- request validation ------------------------- *)

\* a handler that forgets to trim the query
query_of_untrimmed(q) == IF q.kind = "absent" THEN <<>> ELSE q.text

\* body.get('query', '').strip() for a query member that is absent or a str
query_of(q) == strip(IF q.kind = "absent" THEN <<>> ELSE q.text)

\* the request makes lambda_handler raise before the query is examined:
\* the body is not a JSON object, or the query member has no strip()
RaisesOnParse(ev) == ev.body # "object" \/ ev.query.kind = "nonstr"

\* a prompt builder that falls back to its defaults for any context
RaisesOnPrompt_tolerant(ev) == FALSE

\* the context member makes building the user prompt raise (context.get)
RaisesOnPrompt(ev) == ev.context = "nonobject"

(* ------------------------------ retry loop ---------------------------- *)

\* values the loop variable takes: range(max_retries + 1)
loop_range == 0..max_retries

\* a backoff that grows linearly instead of doubling
throttle_delay_linear(n) == base_delay * (n + 1) * Unit

\* delay before the next attempt after a throttling error, without jitter
throttle_delay(n) == base_delay * (2 ^ n) * Unit

\* a short delay that grows by a whole unit per attempt
retry_delay_whole(n) == Unit + n * Unit

\* delay before the next attempt after any other retried error
retry_delay(n) == Unit + n * (Unit \div 2)

\* a classification without the ValidationException branch
classify_no_validation(error_code, n) ==
    IF error_code \in ThrottlingCodes /\ n < max_retries THEN "backoff"
    ELSE IF n < max_retries THEN "retry"
    ELSE "raise"

\* a classification whose throttling branch is also taken on the last attempt
classify_backoff_on_last(error_code, n) ==
    IF error_code \in ThrottlingCodes /\ n <= max_retries THEN "backoff"
    ELSE IF error_code = "ValidationException" THEN "raise"
    ELSE IF n < max_retries THEN "retry"
    ELSE "raise"

\* the branch of the except-ClientError block taken for an error code on
\* attempt n: "backoff" (throttling sleep), "retry" (short sleep) or "raise"
classify(error_code, n) ==
    IF error_code \in ThrottlingCodes /\ n < max_retries THEN "backoff"
    ELSE IF error_code = "ValidationException" THEN "raise"
    ELSE IF n < max_retries THEN "retry"
    ELSE "raise"

\* a generator without its outer except block: what the backend call raises
\* reaches the except block of lambda_handler
envelope_propagating(cmd, query, err) ==
    IF cmd.none THEN Response500Internal
    ELSE IF cmd.text = <<>> THEN Response500Failed(err)
    ELSE Response200(cmd.text, query)

\* a handler whose emptiness test is inverted
envelope_inverted(cmd, query, err) ==
    IF ~Falsy(cmd) THEN Response500Failed(err) ELSE Response200(cmd.text, query)

\* the response lambda_handler builds from what generate_shell_command returned
envelope(cmd, query, err) ==
    IF Falsy(cmd) THEN Response500Failed(err) ELSE Response200(cmd.text, query)

(* ------------------------------- client ------------------------------- *)

BS == "\\"

\* Python str.replace(old, new): replace the non-overlapping occurrences of
\* the non-empty text old, scanning from the left
RECURSIVE replace(_, _, _)
replace(s, old, new) ==
    IF s = <<>> THEN <<>>
    ELSE IF StartsWith(s, old)
         THEN new \o replace(SubSeq(s, Len(old) + 1, Len(s)), old, new)
    ELSE <<Head(s)>> \o replace(Tail(s), old, new)

\* ' '.join(words)
RECURSIVE join(_)
join(words) ==
    IF words = <<>> THEN <<>>
    ELSE IF Len(words) = 1 THEN words[1]
    ELSE words[1] \o <<SP>> \o join(Tail(words))

\* the positional arguments: none, one word, two words
ArgQueries == {<<>>, << <<"l">> >>, << <<"l">>, <<"l", "s">> >>}

\* the parsed command line
Args == [query : ArgQueries, seamless : BOOLEAN]

\* the environment: SHELLMATE_API_ENDPOINT set or not, and whether
\* SHELLMATE_SHOW_PROMPT reads as true
Envs == [endpoint : BOOLEAN, show_prompt : BOOLEAN]

NoArgs == [query |-> <<>>, seamless |-> FALSE]
NoEnv == [endpoint |-> FALSE, show_prompt |-> TRUE]

\* command texts the service may return: with and without backslashes, and
\* one that is only whitespace
CmdTexts == SeqsUpTo({BS, "l"}, MaxCmdLen) \cup {<<SP>>}

\* the 'command' member of a decoded response: absent, null or a text
CommandFields ==
    {[kind |-> "absent", text |-> <<>>], [kind |-> "null", text |-> <<>>]}
        \cup {[kind |-> "str", text |-> t] : t \in CmdTexts}

\* the ways the request can fail: an HTTP error status, a transport error
\* raised as URLError, a timeout while reading, a body that is not JSON, a
\* JSON body that is not an object
FailureKinds == {"http", "url", "timeout", "json", "notobject"}

NoReply == [kind |-> "none", command |-> [kind |-> "absent", text |-> <<>>]]
Failure(kind) == [kind |-> kind, command |-> [kind |-> "absent", text |-> <<>>]]
Decoded(field) == [kind |-> "ok", command |-> field]

\* lines the operator may submit: the staged text edited into anything
Lines == CmdTexts \cup {<<>>, <<SP, SP>>}

\* values os.system may return: success, exit status 1, command not found
Statuses == {0, 256, 32512}

\* the diagnostic query_ai prints for a failed request
diagnostic(kind) ==
    IF kind = "http" THEN "HTTP Error"
    ELSE IF kind = "url" THEN "URL Error"
    ELSE IF kind = "json" THEN "JSON Error"
    ELSE "Unexpected error"

UsageError == "error: No query provided. Use --help for usage information."
EndpointError == "Error: SHELLMATE_API_ENDPOINT environment variable not set"
RunError == "Failed to get command from AI service"
PressEnter == "Press Enter to execute, or Ctrl+C to cancel:"
Cancelled == "\nCommand cancelled"
NothingToRun == "No command to execute"
PromptChar == "$ "

\* an exit code that reports success whatever run returned
exit_code_always_zero(success) == 0

\* sys.exit(0 if success else 1)
exit_code(success) == IF success THEN 0 ELSE 1

\* the shell function that wraps the seamless client hands the captured
\* output to print -z (zsh) or to read -e -i (bash), neither in raw mode:
\* each pair of backslashes is read as one backslash
RECURSIVE unescape(_)
unescape(s) ==
    IF s = <<>> THEN <<>>
    ELSE IF StartsWith(s, <<BS, BS>>)
         THEN <<BS>> \o unescape(SubSeq(s, 3, Len(s)))
    ELSE <<Head(s)>> \o unescape(Tail(s))

\* a seamless mode that escapes for two layers of re-interpretation
seamless_output_twice(cmd) ==
    replace(replace(cmd, <<BS>>, <<BS, BS>>), <<BS>>, <<BS, BS>>)

\* a seamless mode that prints the command as it came
seamless_output_verbatim(cmd) == cmd

\* command.replace('\\', '\\\\')
seamless_output(cmd) == replace(cmd, <<BS>>, <<BS, BS>>)

\* run returns success: main exits
Exit(success) ==
    /\ result' = IF success THEN "true" ELSE "false"
    /\ exitCode' = exit_code(success)
    /\ cpc' = "exited"

\* a client that does not look at the endpoint before it sends the request
main_unchecked_endpoint(a, e) ==
    /\ cpc = "start"
    /\ args' = a
    /\ env' = e
    /\ IF a.query = <<>>
       THEN /\ stderr' = Append(stderr, <<UsageError>>)
            /\ exitCode' = 2
            /\ cpc' = "exited"
            /\ UNCHANGED <<requests, request>>
       ELSE /\ request' = join(a.query)
            /\ requests' = requests + 1
            /\ cpc' = "requesting"
            /\ UNCHANGED <<stderr, exitCode>>
    /\ UNCHANGED <<reply, stdout, staged, operator, line, executed, status,
                   result>>
    /\ UNCHANGED svcVars

\* main(): parse the command line, construct ShellMate, start run, which
\* sends the one request of query_ai
main(a, e) ==
    /\ cpc = "start"
    /\ args' = a
    /\ env' = e
    /\ IF a.query = <<>>
       THEN \* parser.error: usage on the error stream, exit status 2
            /\ stderr' = Append(stderr, <<UsageError>>)
            /\ exitCode' = 2
            /\ cpc' = "exited"
            /\ UNCHANGED <<requests, request>>
       ELSE IF ~e.endpoint
       THEN \* ShellMate.__init__: sys.exit(1)
            /\ stderr' = Append(stderr, <<EndpointError>>)
            /\ exitCode' = 1
            /\ cpc' = "exited"
            /\ UNCHANGED <<requests, request>>
       ELSE /\ request' = join(a.query)
            /\ requests' = requests + 1
            /\ cpc' = "requesting"
            /\ UNCHANGED <<stderr, exitCode>>
    /\ UNCHANGED <<reply, stdout, staged, operator, line, executed, status,
                   result>>
    /\ UNCHANGED svcVars

\* run after query_ai returned nothing usable
RunFails(errs) ==
    /\ stderr' = IF args.seamless THEN errs ELSE Append(errs, <<RunError>>)
    /\ Exit(FALSE)
    /\ UNCHANGED <<stdout, staged>>

\* a client that sends the request again when it failed
QueryFails_retry(kind) ==
    /\ cpc = "requesting"
    /\ reply' = Failure(kind)
    /\ IF requests < 3
       THEN /\ requests' = requests + 1
            /\ stderr' = Append(stderr, <<diagnostic(kind)>>)
            /\ UNCHANGED <<cpc, result, exitCode, stdout, staged>>
       ELSE /\ RunFails(Append(stderr, <<diagnostic(kind)>>))
            /\ UNCHANGED requests
    /\ UNCHANGED <<args, env, request, operator, line, executed, status>>
    /\ UNCHANGED svcVars

\* the request fails: query_ai prints its diagnostic and returns None
QueryFails(kind) ==
    /\ cpc = "requesting"
    /\ reply' = Failure(kind)
    /\ RunFails(Append(stderr, <<diagnostic(kind)>>))
    /\ UNCHANGED <<args, env, requests, request, operator, line, executed,
                   status>>
    /\ UNCHANGED svcVars

\* a client that takes only a missing answer (None) for a failure, so that an
\* empty text is delivered like a command
QueryReturns_none_only(field) ==
    /\ cpc = "requesting"
    /\ reply' = Decoded(field)
    /\ IF field.kind = "null"
       THEN RunFails(stderr)
       ELSE IF args.seamless
       THEN /\ stdout' = Append(stdout, seamless_output(field.text))
            /\ Exit(TRUE)
            /\ UNCHANGED <<stderr, staged>>
       ELSE /\ stdout' =
                   stdout
                   \o (IF env.show_prompt THEN << <<"Query: ">> \o request >>
                       ELSE <<>>)
                   \o << <<"Generated command: ">> \o field.text >>
                   \o (IF env.show_prompt THEN << <<PressEnter>> >> ELSE <<>>)
                   \o << <<PromptChar>> >>
            /\ staged' = field.text
            /\ cpc' = "staged"
            /\ UNCHANGED <<stderr, result, exitCode>>
    /\ UNCHANGED <<args, env, requests, request, operator, line, executed,
                   status>>
    /\ UNCHANGED svcVars

\* the request is answered with a JSON object: query_ai returns its command
\* member ('' when absent) and run delivers it
QueryReturns(field) ==
    /\ cpc = "requesting"
    /\ reply' = Decoded(field)
    /\ IF field.text = <<>>
       THEN RunFails(stderr)
       ELSE IF args.seamless
       THEN /\ stdout' = Append(stdout, seamless_output(field.text))
            /\ Exit(TRUE)
            /\ UNCHANGED <<stderr, staged>>
       ELSE \* execute_command up to the input() call
            /\ stdout' =
                   stdout
                   \o (IF env.show_prompt THEN << <<"Query: ">> \o request >>
                       ELSE <<>>)
                   \o << <<"Generated command: ">> \o field.text >>
                   \o (IF env.show_prompt THEN << <<PressEnter>> >> ELSE <<>>)
                   \o << <<PromptChar>> >>
            /\ staged' = field.text
            /\ cpc' = "staged"
            /\ UNCHANGED <<stderr, result, exitCode>>
    /\ UNCHANGED <<args, env, requests, request, operator, line, executed,
                   status>>
    /\ UNCHANGED svcVars

\* an operator whose edits are ignored: the generated command is run
OperatorEnters_runs_generated(l, st) ==
    /\ cpc = "staged"
    /\ operator' = "enter"
    /\ line' = l
    /\ IF strip(l) # <<>>
       THEN /\ executed' = Append(executed, staged)
            /\ status' = st
            /\ Exit(st = 0)
            /\ UNCHANGED stdout
       ELSE /\ stdout' = Append(stdout, <<NothingToRun>>)
            /\ Exit(FALSE)
            /\ UNCHANGED <<executed, status>>
    /\ UNCHANGED <<args, env, requests, request, reply, stderr, staged>>
    /\ UNCHANGED svcVars

\* a prompt that runs every line that is not empty, blanks included
OperatorEnters_unstripped(l, st) ==
    /\ cpc = "staged"
    /\ operator' = "enter"
    /\ line' = l
    /\ IF l # <<>>
       THEN /\ executed' = Append(executed, l)
            /\ status' = st
            /\ Exit(st = 0)
            /\ UNCHANGED stdout
       ELSE /\ stdout' = Append(stdout, <<NothingToRun>>)
            /\ Exit(FALSE)
            /\ UNCHANGED <<executed, status>>
    /\ UNCHANGED <<args, env, requests, request, reply, stderr, staged>>
    /\ UNCHANGED svcVars

\* the operator presses enter on the line l; when l is not blank it is run
\* by os.system, which returns st
OperatorEnters(l, st) ==
    /\ cpc = "staged"
    /\ operator' = "enter"
    /\ line' = l
    /\ IF strip(l) # <<>>
       THEN /\ executed' = Append(executed, l)
            /\ status' = st
            /\ Exit(st = 0)
            /\ UNCHANGED stdout
       ELSE /\ stdout' = Append(stdout, <<NothingToRun>>)
            /\ Exit(FALSE)
            /\ UNCHANGED <<executed, status>>
    /\ UNCHANGED <<args, env, requests, request, reply, stderr, staged>>
    /\ UNCHANGED svcVars

\* a cancellation that still runs the staged command
OperatorCancels_runs(how) ==
    /\ cpc = "staged"
    /\ operator' = how
    /\ stdout' = Append(stdout, <<Cancelled>>)
    /\ executed' = Append(executed, staged)
    /\ Exit(FALSE)
    /\ UNCHANGED <<args, env, requests, request, reply, stderr, staged, line,
                   status>>
    /\ UNCHANGED svcVars

\* the operator cancels: KeyboardInterrupt or EOFError out of input()
OperatorCancels(how) ==
    /\ cpc = "staged"
    /\ operator' = how
    /\ stdout' = Append(stdout, <<Cancelled>>)
    /\ Exit(FALSE)
    /\ UNCHANGED <<args, env, requests, request, reply, stderr, staged, line,
                   executed, status>>
    /\ UNCHANGED svcVars

\* input() raises another exception
InputRaises ==
    /\ cpc = "staged"
    /\ operator' = "error"
    /\ stderr' = Append(stderr, <<"Error">>)
    /\ Exit(FALSE)
    /\ UNCHANGED <<args, env, requests, request, reply, stdout, staged, line,
                   executed, status>>
    /\ UNCHANGED svcVars

(* ------------------------------- actions ------------------------------ *)

Init ==
    /\ pc = "idle"
    /\ event = NoEvent
    /\ attempt = 0
    /\ attempts = 0
    /\ delays = <<>>
    /\ jitter = 0
    /\ invoker = "NotCalled"
    /\ lastErr = NoErr
    /\ outcome = "none"
    /\ rawText = <<>>
    /\ command = None
    /\ response = NoResponse
    /\ cpc = "start"
    /\ args = NoArgs
    /\ env = NoEnv
    /\ requests = 0
    /\ request = <<>>
    /\ reply = NoReply
    /\ stdout = <<>>
    /\ stderr = <<>>
    /\ staged = <<>>
    /\ operator = "none"
    /\ line = <<>>
    /\ executed = <<>>
    /\ status = -1
    /\ result = "none"
    /\ exitCode = -1

\* lambda_handler is invoked with a request: parse, validate, build the
\* prompt and enter the retry loop.  Invocations share no state.
lambda_handler(ev) ==
    /\ pc = "idle"
    /\ event' = ev
    /\ attempt' = 0
    /\ attempts' = 0
    /\ delays' = <<>>
    /\ jitter' = 0
    /\ lastErr' = NoErr
    /\ outcome' = "none"
    /\ rawText' = <<>>
    /\ command' = None
    /\ IF RaisesOnParse(ev)
       THEN /\ response' = Response500Internal
            /\ invoker' = "NotCalled"
            /\ pc' = "done"
       ELSE IF query_of(ev.query) = <<>>
       THEN /\ response' = Response400
            /\ invoker' = "NotCalled"
            /\ pc' = "done"
       ELSE IF RaisesOnPrompt(ev)
       THEN /\ response' = Response500Internal
            /\ invoker' = "NotCalled"
            /\ pc' = "done"
       ELSE /\ response' = NoResponse
            /\ invoker' = "Attempting"
            /\ pc' = "attempting"
    /\ UNCHANGED cliVars

\* generate_shell_command returns ret: lambda_handler answers
Return(ret, err) ==
    /\ command' = ret
    /\ response' = envelope(ret, query_of(event.query), err)
    /\ pc' = "done"

\* a loop that does not break on success and goes on to the next attempt
InvokeReturns_no_break(raw) ==
    /\ pc = "attempting"
    /\ attempts' = attempts + 1
    /\ outcome' = "text"
    /\ rawText' = raw
    /\ invoker' = "Succeeded"
    /\ attempt' = attempt + 1
    /\ IF attempt + 1 \in loop_range
       THEN UNCHANGED <<pc, command, response>>
       ELSE Return(Str(sanitize(raw)), lastErr)
    /\ UNCHANGED <<event, delays, jitter, lastErr>>
    /\ UNCHANGED cliVars

\* bedrock.invoke_model returns a reply carrying the text raw: the loop
\* breaks, the reply is parsed and cleaned up
InvokeReturns(raw) ==
    /\ pc = "attempting"
    /\ attempts' = attempts + 1
    /\ outcome' = "text"
    /\ rawText' = raw
    /\ invoker' = "Succeeded"
    /\ Return(Str(sanitize(raw)), lastErr)
    /\ UNCHANGED <<event, attempt, delays, jitter, lastErr>>
    /\ UNCHANGED cliVars

\* bedrock.invoke_model returns a reply whose body is not the expected
\* JSON: the loop breaks, parsing raises, generate_shell_command returns None
InvokeReturnsMalformed ==
    /\ pc = "attempting"
    /\ attempts' = attempts + 1
    /\ outcome' = "malformed"
    /\ invoker' = "Succeeded"
    /\ Return(None, lastErr)
    /\ UNCHANGED <<event, attempt, delays, jitter, lastErr, rawText>>
    /\ UNCHANGED cliVars

\* a loop that keeps one backoff counter per kind of failure: the delay
\* grows with the number of earlier failures of the same kind
InvokeClientError_per_kind(error_code, j) ==
    /\ pc = "attempting"
    /\ attempts' = attempts + 1
    /\ outcome' = "error"
    /\ lastErr' = [code |-> error_code, msg |-> ErrorMessage]
    /\ LET branch == classify(error_code, attempt)
           kind == IF branch = "backoff" THEN "backoff" ELSE "retry"
           earlier == Cardinality({i \in 1..Len(delays) : delays[i].kind = kind})
           slept == IF branch = "backoff"
                    THEN [kind |-> "backoff", delay |-> throttle_delay(earlier)]
                    ELSE [kind |-> "retry", delay |-> retry_delay(earlier)]
       IN  IF branch = "raise"
           THEN /\ invoker' = "Failed"
                /\ Return(None, lastErr')
                /\ UNCHANGED <<attempt, delays, jitter>>
           ELSE /\ delays' = Append(delays, slept)
                /\ jitter' = IF branch = "backoff" THEN j ELSE 0
                /\ attempt' = attempt + 1
                /\ invoker' = "Attempting"
                /\ UNCHANGED <<pc, command, response>>
    /\ UNCHANGED <<event, rawText>>
    /\ UNCHANGED cliVars

\* bedrock.invoke_model raises a ClientError with the given code; j is the
\* value of time.time() % 0.5 should the throttling branch be taken
InvokeClientError(error_code, j) ==
    /\ pc = "attempting"
    /\ attempts' = attempts + 1
    /\ outcome' = "error"
    /\ lastErr' = [code |-> error_code, msg |-> ErrorMessage]
    /\ LET branch == classify(error_code, attempt)
           slept == IF branch = "backoff"
                    THEN [kind |-> "backoff", delay |-> throttle_delay(attempt)]
                    ELSE [kind |-> "retry", delay |-> retry_delay(attempt)]
       IN  IF branch = "raise"
           THEN /\ invoker' = "Failed"
                /\ Return(None, lastErr')
                /\ UNCHANGED <<attempt, delays, jitter>>
           ELSE /\ delays' = Append(delays, slept)
                /\ jitter' = IF branch = "backoff" THEN j ELSE 0
                /\ attempt' = attempt + 1
                /\ IF attempt + 1 \in loop_range
                   THEN /\ invoker' = "Attempting"
                        /\ UNCHANGED <<pc, command, response>>
                   ELSE \* the loop ends with no reply bound: parsing raises
                        /\ invoker' = "Failed"
                        /\ Return(None, lastErr')
    /\ UNCHANGED <<event, rawText>>
    /\ UNCHANGED cliVars

\* bedrock.invoke_model raises an exception that is not a ClientError: it
\* passes the except-ClientError block and reaches the outer handler
InvokeOtherError ==
    /\ pc = "attempting"
    /\ attempts' = attempts + 1
    /\ outcome' = "error"
    /\ lastErr' = [code |-> NonClientError, msg |-> ErrorMessage]
    /\ invoker' = "Failed"
    /\ Return(None, lastErr')
    /\ UNCHANGED <<event, attempt, delays, jitter, rawText>>
    /\ UNCHANGED cliVars

\* one backend call of the retry loop
Invoke ==
    \/ InvokeOtherError
    \/ InvokeReturnsMalformed
    \/ \E code \in ErrorCodes, j \in Jitters : InvokeClientError(code, j)
    \/ \E raw \in RawTexts : InvokeReturns(raw)

\* the invocation ends: the response is delivered and nothing is kept
Complete ==
    /\ pc = "done"
    /\ pc' = "idle"
    /\ event' = NoEvent
    /\ attempt' = 0
    /\ attempts' = 0
    /\ delays' = <<>>
    /\ jitter' = 0
    /\ invoker' = "NotCalled"
    /\ lastErr' = NoErr
    /\ outcome' = "none"
    /\ rawText' = <<>>
    /\ command' = None
    /\ response' = NoResponse
    /\ UNCHANGED cliVars

Next ==
    \/ \E ev \in Events : lambda_handler(ev)
    \/ Invoke
    \/ Complete

Spec == Init /\ [][Next]_vars

CliNext ==
    \/ \E a \in Args, e \in Envs : main(a, e)
    \/ \E kind \in FailureKinds : QueryFails(kind)
    \/ \E field \in CommandFields : QueryReturns(field)
    \/ \E l \in Lines, st \in Statuses : OperatorEnters(l, st)
    \/ \E how \in {"interrupt", "eof"} : OperatorCancels(how)
    \/ InputRaises

\* one run of the client
CliSpec == Init /\ [][CliNext]_vars

\* every backend call returns or raises: the retry loop is never suspended
FairSpec == Spec /\ WF_vars(Invoke)

TypeOK ==
    /\ pc \in {"idle", "attempting", "done"}
    /\ event \in Events
    /\ attempt \in 0..(max_retries + 1)
    /\ attempts \in 0..(max_retries + 2)
    /\ jitter \in Jitters
    /\ invoker \in {"NotCalled", "Attempting", "Succeeded", "Failed"}
    /\ outcome \in {"none", "text", "malformed", "error"}

(* ------------------------------- claims ------------------------------- *)

\* the query of the request is absent, empty or whitespace-only
QueryBlank(ev) ==
    /\ ev.body = "object"
    /\ \/ ev.query.kind = "absent"
       \/ ev.query.kind = "str" /\ \A i \in 1..Len(ev.query.text) :
                                       ev.query.text[i] \in Whitespace

\* the query of the request is a text that is not blank
QueryGiven(ev) ==
    /\ ev.body = "object"
    /\ ev.query.kind = "str"
    /\ \E i \in 1..Len(ev.query.text) : ev.query.text[i] \notin Whitespace

\* this step is a call of bedrock.invoke_model
BackendCall == attempts' = attempts + 1

\* this step is a call of bedrock.invoke_model that fails with one of codes
Raises(codes) == BackendCall /\ outcome' = "error" /\ lastErr'.code \in codes

\* C1: a request whose query is absent, empty or whitespace-only is answered
\* with status 400 and the error "Query parameter is required", and the
\* backend is never invoked for it.
C1_BlankQueryRejected ==
    (pc # "idle" /\ QueryBlank(event)) =>
        /\ pc = "done"
        /\ response.statusCode = 400
        /\ response.body.error = "Query parameter is required"
        /\ attempts = 0
        /\ invoker = "NotCalled"

C1_Witness ==
    /\ pc = "done"
    /\ event.query = [kind |-> "str", text |-> <<SP, NL>>]
    /\ response.statusCode = 400

\* C2: a ValidationException on any attempt fails the Invoker at once: no
\* sleep and no further backend call; on attempt 0 that is one call in total.
C2_ValidationNotRetried ==
    [][/\ Raises({"ValidationException"}) =>
            /\ delays' = delays
            /\ invoker' = "Failed"
            /\ pc' = "done"
            /\ (attempt = 0 => attempts' = 1)
       /\ (invoker = "Failed" /\ lastErr.code = "ValidationException") =>
            ~BackendCall]_vars

C2_Witness ==
    /\ invoker = "Failed"
    /\ lastErr.code = "ValidationException"
    /\ attempts = 3
    /\ Len(delays) = 2

\* the throttling delays of the source comment, in milliseconds
ThrottleSchedule == <<2000, 4000, 8000, 16000, 32000>>

\* every sleep so far followed a throttling error
OnlyThrottled == \A i \in 1..Len(delays) : delays[i].kind = "backoff"

\* C3: the sleep after a throttled attempt n is 2 * 2^n time-units plus a
\* jitter below half a unit, the delays of successive throttled attempts
\* never decrease, and k throttled attempts followed by a success make
\* exactly k + 1 backend calls.
C3_ThrottleBackoff ==
    /\ Len(delays) <= 5
    /\ \A i \in 1..Len(delays) :
           delays[i].kind = "backoff" => delays[i].delay = ThrottleSchedule[i]
    /\ \A i \in 1..Len(delays), k \in 1..Len(delays) :
           (i < k /\ delays[i].kind = "backoff" /\ delays[k].kind = "backoff")
               => delays[i].delay <= delays[k].delay
    /\ jitter >= 0 /\ jitter < 500
    /\ (invoker = "Succeeded" /\ OnlyThrottled) => attempts = Len(delays) + 1

C3_Witness ==
    /\ invoker = "Succeeded"
    /\ OnlyThrottled
    /\ Len(delays) = 3
    /\ attempts = 4
    /\ response.statusCode = 200

\* the short delays of the source comment, in milliseconds
RetrySchedule == <<1000, 1500, 2000, 2500, 3000>>

\* error codes that are neither throttling nor ValidationException
TransientCodes == ErrorCodes \ (ThrottlingCodes \cup {"ValidationException"})

\* C4: a ClientError that is neither throttling nor ValidationException on
\* attempt n < 5 makes the Invoker sleep 1 + 0.5 * n time-units and go on to
\* attempt n + 1, which is the next thing it does.
C4_TransientRetry ==
    [][/\ (Raises(TransientCodes) /\ attempt < 5) =>
            /\ delays' = Append(delays, [kind |-> "retry",
                                         delay |-> RetrySchedule[attempt + 1]])
            /\ jitter' = 0
            /\ attempt' = attempt + 1
            /\ pc' = "attempting"
       /\ pc = "attempting" => BackendCall]_vars

C4_Witness ==
    /\ pc = "attempting"
    /\ attempt = 5
    /\ Len(delays) = 5
    /\ \A i \in 1..5 : delays[i] = [kind |-> "retry", delay |-> RetrySchedule[i]]

\* C5: one call of the Invoker makes at most 6 backend calls (attempts 0..5)
\* and none after a successful one, every step of the loop is a backend call
\* that ends the call or moves on to the next attempt, and the call always
\* ends in Succeeded or Failed.
C5_BoundedAttempts ==
    /\ [](attempts <= 6 /\ (pc = "attempting" => attempt <= 5))
    /\ (pc = "attempting") ~> (invoker \in {"Succeeded", "Failed"})
    /\ [][/\ invoker = "Succeeded" => ~BackendCall
          /\ pc = "attempting" =>
                /\ BackendCall
                /\ \/ pc' = "done" /\ invoker' \in {"Succeeded", "Failed"}
                   \/ pc' = "attempting" /\ attempt' = attempt + 1]_vars

C5_Witness ==
    /\ pc = "done"
    /\ attempts = 6
    /\ invoker = "Succeeded"

\* C6: a backend failure on attempt 5 fails the Invoker with that failure,
\* whatever its kind, without a sleep and without a further backend call.
C6_LastAttemptFails ==
    [][/\ (BackendCall /\ outcome' = "error" /\ attempt = 5) =>
            /\ invoker' = "Failed"
            /\ delays' = delays
            /\ jitter' = jitter
            /\ pc' = "done"
            /\ lastErr'.code \in ErrorCodes \cup {NonClientError}
       /\ invoker = "Failed" => (~BackendCall /\ lastErr' \in {lastErr, NoErr})]_vars

C6_Witness ==
    /\ invoker = "Failed"
    /\ attempts = 6
    /\ lastErr.code = "ThrottlingException"
    /\ Len(delays) = 5

\* C7: a backend failure that is not a ClientError (a read timeout, a
\* connection failure) on attempt n < 5 is treated like a transient error:
\* the Invoker sleeps 1 + 0.5 * n time-units and goes on to attempt n + 1.
C7_UnclassifiedRetried ==
    [][(Raises({NonClientError}) /\ attempt < 5) =>
            /\ delays' = Append(delays, [kind |-> "retry",
                                         delay |-> RetrySchedule[attempt + 1]])
            /\ attempt' = attempt + 1
            /\ pc' = "attempting"]_vars

\* the backend was called once and answered with a text
SucceededAtOnce == pc = "done" /\ attempts = 1 /\ outcome = "text"

\* C8 as stated: for a query that is not blank and a backend that succeeds
\* on every call, the response has status 200 and a non-empty command.
C8_SuccessAlways200 ==
    (QueryGiven(event) /\ SucceededAtOnce) =>
        /\ response.statusCode = 200
        /\ response.body.command # <<>>

\* the text contains a character that is neither whitespace nor part of a
\* fence marker the clean-up removes
Useful(raw) == sanitize(raw) # <<>>

\* C8: for a query that is not blank, a context that is absent or an object
\* and a backend that succeeds on every call with a text that is not empty
\* after the clean-up, the response has status 200 and its body holds that
\* non-empty command and the trimmed query.
C8_SuccessEnvelope ==
    (/\ QueryGiven(event)
     /\ event.context # "nonobject"
     /\ SucceededAtOnce
     /\ Useful(rawText)) =>
        /\ response.statusCode = 200
        /\ response.body.command # <<>>
        /\ response.body.command = command.text
        /\ response.body.query = strip(event.query.text)
        /\ response.body.error = ""

C8_Witness ==
    /\ SucceededAtOnce
    /\ event.query.text = <<SP, "l">>
    /\ rawText = <<"l", SP, "l">>
    /\ response.statusCode = 200
    /\ response.body.command = <<"l", SP, "l">>

\* C9: whenever the Invoker fails, whatever the error and after any number
\* of attempts, the response is status 500 with the one fixed body
\* "Failed to generate shell command", which is neither the backend's error
\* code nor its message.
C9_GenericFailure ==
    invoker = "Failed" =>
        /\ pc = "done"
        /\ response.statusCode = 500
        /\ response.body =
               [error |-> "Failed to generate shell command",
                command |-> <<>>, query |-> <<>>]
        /\ response.body.error \notin {lastErr.code, lastErr.msg}

C9_Witness ==
    /\ invoker = "Failed"
    /\ lastErr = [code |-> "ServiceQuotaExceededException",
                  msg |-> "backend detail"]
    /\ attempts = 6
    /\ response.statusCode = 500

\* C10: a fenced text, bare or with any language tag, whose inner text is c
\* (c already trimmed) is cleaned up to exactly c.
C10_AnyFenceStripped ==
    (pc = "done" /\ outcome = "text") =>
        \A tag \in Tags, c \in Inners :
            (rawText = Fenced(tag, c) /\ c = strip(c)) => command.text = c

\* C11: the clean-up is idempotent: cleaning up a cleaned-up text changes
\* nothing, also when removing the tagged marker joined backquotes.
C11_SanitizeIdempotent ==
    (pc = "done" /\ outcome = "text") =>
        /\ command.text = sanitize(rawText)
        /\ sanitize(command.text) = command.text

C11_Witness ==
    /\ pc = "done"
    /\ outcome = "text"
    /\ rawText = <<BT, BT>> \o FenceBash \o <<BT, BT>>
    /\ command.text = <<BT>>

\* the response is the preflight answer: status 200, empty body, the
\* methods POST, GET, OPTIONS advertised
IsPreflightAnswer(r) ==
    /\ r.statusCode = 200
    /\ r.body = EmptyBody
    /\ "AllowMethods" \in DOMAIN r.headers
    /\ r.headers.AllowMethods = "POST, GET, OPTIONS"

\* C17: a preflight request sent to the handler is answered with status 200,
\* an empty body and the methods POST, GET, OPTIONS advertised.
C17_PreflightAnswered ==
    (pc = "done" /\ event.method = "OPTIONS") => IsPreflightAnswer(response)

\* the headers carry Content-Type: application/json
HasJsonType(h) == "ContentType" \in DOMAIN h /\ h.ContentType = "application/json"

\* the headers carry Access-Control-Allow-Origin: *
HasAllowOrigin(h) == "AllowOrigin" \in DOMAIN h /\ h.AllowOrigin = "*"

\* C18 as stated: every response, the preflight response included, carries
\* Content-Type: application/json and Access-Control-Allow-Origin: *.
C18_AllResponsesJsonCors ==
    pc = "done" =>
        \A r \in {response, handle_cors_preflight} :
            HasJsonType(r.headers) /\ HasAllowOrigin(r.headers)

\* C18: every response lambda_handler returns (200, 400 and both 500
\* variants) carries Content-Type: application/json and
\* Access-Control-Allow-Origin: *; the preflight response carries the
\* allow-origin header but no Content-Type.
C18_HandlerResponsesJsonCors ==
    pc = "done" =>
        /\ response.statusCode \in {200, 400, 500}
        /\ HasJsonType(response.headers)
        /\ HasAllowOrigin(response.headers)
        /\ HasAllowOrigin(handle_cors_preflight.headers)
        /\ "ContentType" \notin DOMAIN handle_cors_preflight.headers

C18_Witness ==
    /\ pc = "done"
    /\ response.statusCode = 500
    /\ response.body.error = "Internal server error"
    /\ event.context = "nonobject"

\* C19 as stated: on success the query member of the response is the query
\* as it was received.
C19_QueryEchoedAsReceived ==
    (pc = "done" /\ response.statusCode = 200) =>
        response.body.query = event.query.text

\* C19: on success the query member of the response is the received query
\* with its leading and trailing whitespace removed.
C19_QueryEchoedTrimmed ==
    (pc = "done" /\ response.statusCode = 200) =>
        /\ response.body.query = strip(event.query.text)
        /\ response.body.query # <<>>
        /\ response.body.query[1] \notin Whitespace
        /\ response.body.query[Len(response.body.query)] \notin Whitespace

C19_Witness ==
    /\ pc = "done"
    /\ response.statusCode = 200
    /\ event.query.text = <<"l", SP, NL>>
    /\ response.body.query = <<"l">>

\* the text with every backslash written twice
RECURSIVE Doubled(_)
Doubled(c) ==
    IF c = <<>> THEN <<>>
    ELSE (IF Head(c) = "\\" THEN <<"\\", "\\">> ELSE <<Head(c)>>)
             \o Doubled(Tail(c))

\* the run was seamless and the service answered with a non-empty command
SeamlessSuccess ==
    /\ cpc = "exited"
    /\ args.seamless
    /\ reply.kind = "ok"
    /\ reply.command.text # <<>>

\* C12: in seamless mode with a non-empty command from the service, standard
\* output holds the one line that is the command with every backslash
\* doubled (the command itself when it has none), and run returns true
\* (exit code 0).
C12_SeamlessPrintsDoubled ==
    SeamlessSuccess =>
        /\ stdout = <<Doubled(reply.command.text)>>
        /\ ((\A i \in 1..Len(reply.command.text) :
                reply.command.text[i] # "\\") => stdout = <<reply.command.text>>)
        /\ result = "true"
        /\ exitCode = 0

C12_Witness ==
    /\ SeamlessSuccess
    /\ reply.command.text = <<"\\", "l">>
    /\ stdout = << <<"\\", "\\", "l">> >>
    /\ exitCode = 0

\* C13: in seamless mode, whenever run returns false for a generation
\* failure (failed request, undecodable response, empty command), standard
\* output and the error stream are both empty.
C13_SeamlessSilentFailure ==
    (cpc = "exited" /\ args.seamless /\ requests = 1 /\ result = "false") =>
        /\ stdout = <<>>
        /\ stderr = <<>>

\* C14: when the operator cancels at the staging prompt (interrupt or
\* end-of-input) no command is executed in the run, run returns false and
\* the process exits with code 1.
C14_CancelRunsNothing ==
    operator \in {"interrupt", "eof"} =>
        /\ cpc = "exited"
        /\ executed = <<>>
        /\ status = -1
        /\ result = "false"
        /\ exitCode = 1

C14_Witness ==
    /\ operator = "interrupt"
    /\ staged = <<"l">>
    /\ cpc = "exited"
    /\ exitCode = 1

\* the text is empty or whitespace only
Blank(l) == \A i \in 1..Len(l) : l[i] \in Whitespace

\* C15 as stated: when the operator presses enter, the line as it stands is
\* executed and the success of that command is the outcome of the call.
C15_EnteredLineRun ==
    (cpc = "exited" /\ operator = "enter") =>
        /\ executed = <<line>>
        /\ (result = "true") = (status = 0)

\* C15: when the operator presses enter on a line that is not blank, that
\* line (not the generated command) is the one command executed, and the
\* call succeeds exactly when the command's status is 0: exit code 0 then,
\* exit code 1 for every other status.
C15_NonBlankLineRun ==
    (cpc = "exited" /\ operator = "enter" /\ ~Blank(line)) =>
        /\ executed = <<line>>
        /\ status \in {0, 256, 32512}
        /\ (result = "true") = (status = 0)
        /\ (result = "false") = (status # 0)
        /\ exitCode = (IF status = 0 THEN 0 ELSE 1)

C15_Witness ==
    /\ cpc = "exited"
    /\ operator = "enter"
    /\ staged = <<"l">>
    /\ line = <<"l", "l">>
    /\ executed = << <<"l", "l">> >>
    /\ status = 256
    /\ exitCode = 1

\* C16 as stated: the process exits with code 0 on success and with code 1
\* on every failure, a missing query included.
C16_ExitZeroOrOne ==
    cpc = "exited" => exitCode = (IF result = "true" THEN 0 ELSE 1)

\* C16: the process exits with code 0 when run succeeded, with code 1 when
\* run failed (generation failure, cancellation, blank line, failed
\* command) or no endpoint is configured, and with code 2 when no query
\* is supplied.
C16_ExitCodes ==
    cpc = "exited" =>
        /\ (result = "true") = (exitCode = 0)
        /\ result = "false" => exitCode = 1
        /\ (args.query # <<>> /\ ~env.endpoint) => exitCode = 1
        /\ (args.query = <<>>) = (exitCode = 2)
        /\ exitCode \in {0, 1, 2}

C16_Witness ==
    /\ cpc = "exited"
    /\ args.query = <<>>
    /\ result = "none"
    /\ exitCode = 2
    /\ stderr # <<>>

\* C20: a run sends at most one request; when that request fails (HTTP
\* status, transport, timeout, decoding) the diagnostic is on the error
\* stream, run has returned false, nothing was staged or executed, and no
\* second request is sent.
C20_OneRequestNoRetry ==
    /\ requests <= 1
    /\ reply.kind \in {"http", "url", "timeout", "json", "notobject"} =>
        /\ cpc = "exited"
        /\ requests = 1
        /\ stderr # <<>>
        /\ stderr[1] \in {<<"HTTP Error">>, <<"URL Error">>, <<"JSON Error">>,
                          <<"Unexpected error">>}
        /\ result = "false"
        /\ exitCode = 1
        /\ staged = <<>>
        /\ executed = <<>>

C20_Witness ==
    /\ cpc = "exited"
    /\ reply.kind = "timeout"
    /\ requests = 1
    /\ stderr[1] = <<"Unexpected error">>
    /\ result = "false"

\* the service answered with a JSON object whose command member is absent,
\* null or the empty text
EmptySuccess == reply.kind = "ok" /\ reply.command.text = <<>>

\* the request failed outright
ExplicitFailure == reply.kind \in FailureKinds

\* what a run leaves behind when no command was delivered: nothing on
\* standard output, nothing staged, nothing executed, run returned false
NothingDelivered ==
    /\ cpc = "exited"
    /\ stdout = <<>>
    /\ staged = <<>>
    /\ operator = "none"
    /\ executed = <<>>
    /\ status = -1
    /\ result = "false"
    /\ exitCode = 1

\* C21: a decoded response whose command is the empty text, or is missing,
\* ends the run as a failed request does, in seamless and in interactive
\* mode: nothing on standard output, nothing staged or executed, run returns
\* false; in interactive mode the failure message of run is printed.
C21_EmptySuccessIsFailure ==
    /\ (EmptySuccess \/ ExplicitFailure) => NothingDelivered
    /\ EmptySuccess =>
           stderr = (IF args.seamless THEN <<>> ELSE << <<RunError>> >>)
    /\ (ExplicitFailure /\ ~args.seamless) =>
           stderr[Len(stderr)] = <<RunError>>

C21_Witness ==
    /\ reply = Decoded([kind |-> "str", text |-> <<>>])
    /\ ~args.seamless
    /\ NothingDelivered
    /\ stderr = << <<RunError>> >>

\* C22: the command printed in seamless mode, read by one layer of
\* downstream unescaping (each doubled backslash read as one), is the
\* command the service returned, backslash for backslash.
C22_BackslashRoundTrip ==
    SeamlessSuccess =>
        /\ Len(stdout) = 1
        /\ unescape(stdout[1]) = reply.command.text
        /\ unescape(seamless_output(reply.command.text)) = reply.command.text

C22_Witness ==
    /\ SeamlessSuccess
    /\ reply.command.text = <<BS, BS>>
    /\ stdout = << <<BS, BS, BS, BS>> >>
    /\ unescape(stdout[1]) = <<BS, BS>>

\* the client was started without an endpoint in the environment
NoEndpoint == cpc # "start" /\ ~env.endpoint

\* no request was sent and no command was printed, staged or executed
NothingStarted ==
    /\ requests = 0
    /\ reply = NoReply
    /\ stdout = <<>>
    /\ staged = <<>>
    /\ operator = "none"
    /\ executed = <<>>
    /\ result = "none"

\* C23 as stated: without an endpoint the client stops at startup with exit
\* code 1, before any request is sent and any command is staged or executed.
C23_NoEndpointExitOne ==
    NoEndpoint =>
        /\ cpc = "exited"
        /\ exitCode = 1
        /\ NothingStarted

\* C23: without an endpoint the client stops at startup before any request
\* is sent and any command is staged or executed; when a query was supplied
\* it prints the endpoint error and exits with code 1, and when no query was
\* supplied the usage error comes first and the exit code is 2.
C23_NoEndpointFatal ==
    NoEndpoint =>
        /\ cpc = "exited"
        /\ NothingStarted
        /\ args.query # <<>> =>
               (exitCode = 1 /\ stderr = << <<EndpointError>> >>)
        /\ args.query = <<>> =>
               (exitCode = 2 /\ stderr = << <<UsageError>> >>)

C23_Witness ==
    /\ NoEndpoint
    /\ args.query = << <<"l">> >>
    /\ cpc = "exited"
    /\ exitCode = 1
    /\ stderr = << <<EndpointError>> >>
    /\ requests = 0

\* the backend was called for this request and the call path failed: an
\* error was raised out of the retry loop (retries exhausted,
\* ValidationException, an exception that is not a ClientError), or the
\* reply could not be parsed, or its text is empty after the clean-up
BackendPathFailed ==
    /\ pc = "done"
    /\ attempts >= 1
    /\ \/ invoker = "Failed"
       \/ outcome = "malformed"
       \/ outcome = "text" /\ sanitize(rawText) = <<>>

\* C24: every failure of the backend invocation path is answered with status
\* 500 and exactly the body "Failed to generate shell command"; the body
\* "Internal server error" appears only when the handler raised before the
\* backend was called (request parsing, building the prompt).
C24_FailureBodies ==
    /\ BackendPathFailed =>
           /\ response.statusCode = 500
           /\ response.body = ErrorBody("Failed to generate shell command")
    /\ (pc = "done" /\ response.body.error = "Internal server error") =>
           /\ response.statusCode = 500
           /\ attempts = 0
           /\ invoker = "NotCalled"
           /\ RaisesOnParse(event) \/ RaisesOnPrompt(event)

C24_Witness ==
    /\ BackendPathFailed
    /\ outcome = "text"
    /\ rawText = Fenced(<<"b", "a", "s", "h">>, <<SP>>)
    /\ command = Str(<<>>)
    /\ attempts = 2
    /\ response = Response500Failed(lastErr)

\* the sleep after a failure of the given kind on attempt n, in milliseconds
\* and without jitter: 2 * 2^n units when throttled, 1 + 0.5 * n otherwise
SleepAfter(kind, n) ==
    IF kind = "backoff" THEN 2000 * (2 ^ n) ELSE 1000 + 500 * n

\* both kinds of failure were slept on in this request
Interleaved ==
    /\ \E i \in 1..Len(delays) : delays[i].kind = "backoff"
    /\ \E i \in 1..Len(delays) : delays[i].kind = "retry"

\* C25: the sleep after a failed attempt n < 5 is a function of the kind of
\* that failure and of n alone, whatever failures came before it: 2 * 2^n
\* units plus jitter when throttled, 1 + 0.5 * n units when transient; and
\* every slept failure raises the attempt index by exactly one.
C25_DelayByKindAndIndex ==
    /\ [](/\ Len(delays) = attempt
          /\ \A i \in 1..Len(delays) :
                 delays[i].delay = SleepAfter(delays[i].kind, i - 1)
          /\ jitter \in 0..499)
    /\ [][(Raises(ThrottlingCodes \cup TransientCodes) /\ attempt < 5) =>
            /\ attempt' = attempt + 1
            /\ Len(delays') = Len(delays) + 1
            /\ SubSeq(delays', 1, Len(delays)) = delays
            /\ delays'[attempt'] =
                   IF lastErr'.code \in ThrottlingCodes
                   THEN [kind |-> "backoff", delay |-> SleepAfter("backoff", attempt)]
                   ELSE [kind |-> "retry", delay |-> SleepAfter("retry", attempt)]]_vars

C25_Witness ==
    /\ pc = "attempting"
    /\ attempt = 4
    /\ Interleaved
    /\ delays = <<[kind |-> "retry", delay |-> 1000],
                  [kind |-> "backoff", delay |-> 4000],
                  [kind |-> "retry", delay |-> 2000],
                  [kind |-> "backoff", delay |-> 16000]>>

\* the body is not a JSON object or the query member is not a text
Unparsable(ev) == ev.body # "object" \/ ev.query.kind = "nonstr"

\* the context member is present and is not an object
BadContext(ev) == ev.body = "object" /\ ev.context = "nonobject"

\* the answer is status 500 with "Internal server error" and the backend was
\* not called
InternalErrorNoBackend ==
    /\ pc = "done"
    /\ response.statusCode = 500
    /\ response.body = ErrorBody("Internal server error")
    /\ attempts = 0
    /\ invoker = "NotCalled"

\* C26 as stated: a request with an unparsable body, a query that is not a
\* text, or a context that is present but not an object, is answered with
\* status 500 and "Internal server error", not with 400, and the backend is
\* never invoked for it.
C26_MalformedIs500 ==
    (pc # "idle" /\ (Unparsable(event) \/ BadContext(event))) =>
        InternalErrorNoBackend

\* C26: a request with an unparsable body or a query that is not a text,
\* or with a query that is not blank and a context that is present but not
\* an object, is answered with status 500 and "Internal server error" and
\* the backend is never invoked for it; a blank query with such a context
\* is answered with status 400, the context not being looked at.
C26_MalformedAnswer ==
    /\ (pc # "idle" /\ Unparsable(event)) => InternalErrorNoBackend
    /\ (pc # "idle" /\ BadContext(event) /\ QueryGiven(event)) =>
           InternalErrorNoBackend
    /\ (pc # "idle" /\ BadContext(event) /\ QueryBlank(event)) =>
           /\ pc = "done"
           /\ response = Response400
           /\ attempts = 0

C26_Witness ==
    /\ InternalErrorNoBackend
    /\ event.body = "object"
    /\ event.query = [kind |-> "str", text |-> <<"l", "s">>]
    /\ event.context = "nonobject"

\* C27: a run executes at most one command, only in interactive mode and
\* only in the step in which the operator submits a line at the staging
\* prompt, the command being that line; when the submitted line is empty or
\* whitespace-only nothing is executed and the call returns false.
C27_AtMostOneAfterSubmit ==
    /\ [](/\ Len(executed) <= 1
          /\ executed # <<>> =>
                 (~args.seamless /\ operator = "enter" /\ executed = <<line>>)
          /\ (operator = "enter" /\ Blank(line)) =>
                 /\ executed = <<>>
                 /\ status = -1
                 /\ result = "false"
                 /\ exitCode = 1)
    /\ [][executed' # executed =>
            /\ cpc = "staged"
            /\ executed = <<>>
            /\ operator = "none"
            /\ operator' = "enter"
            /\ cpc' = "exited"]_vars

C27_Witness ==
    /\ cpc = "exited"
    /\ ~args.seamless
    /\ operator = "enter"
    /\ staged = <<BS, "l">>
    /\ line = <<SP, SP>>
    /\ executed = <<>>
    /\ result = "false"
    /\ stdout[Len(stdout)] = <<NothingToRun>>

====
